---- MODULE Spec2Model ----
(***************************************************************************)
(* A model of project3.py: an interactive manager of an on-disk B-tree     *)
(* index.  The index file is a header block followed by 512-byte node      *)
(* blocks; the session (IndexManager) holds the name of the open file and  *)
(* an in-memory copy of the root node.                                     *)
(*                                                                         *)
(* Conventions.                                                            *)
(*  - A Python value that may be None is a sequence: <<>> is None and      *)
(*    <<x>> is x.  The file name None is the string None.                  *)
(*  - Python lists are sequences; a Python index i is the position i+1.    *)
(*  - A file is [magic, root_offset, blocks]: the 16 meaningful bytes of   *)
(*    block 0 and the node blocks; blocks[i] lies at byte offset 512*i.    *)
(*  - A node block is its is_leaf byte, its num_keys field and the fields  *)
(*    that follow them: num_keys 4-byte keys, as many 4-byte values, then  *)
(*    8-byte child offsets.  Trailing zero fields are dropped (the block   *)
(*    is zero-padded), so two blocks are equal exactly when their bytes    *)
(*    are.  Every node the program saves has as many values as keys, so a  *)
(*    field's place in the block is fixed by num_keys.                     *)
(*  - An integer of the model is below 2^31: the upper end of the range    *)
(*    of '>I' and '>Q' is never met, the lower end (0) is.                 *)
(*  - I/O failures (IOError) are not modelled: every open, read and write  *)
(*    of an existing file succeeds.                                        *)
(*  - A data file (what load reads and extract writes) is [magic, lines]:  *)
(*    each line is the sequence of its comma-separated parts, stripped,    *)
(*    each part a string.  Its first 8 bytes are never the index magic.    *)
(*    An index file read as text is one line without a comma: the model's  *)
(*    keys, values and offsets hold no byte 10, 13 or 44.                  *)
(*  - create and extract take names of different kinds (FileNames and      *)
(*    DataNames): extract never overwrites an index file.                  *)
(***************************************************************************)
EXTENDS Integers, Sequences, FiniteSets, TLC

\* ------------------------------------------------------------ constants
BLOCK_SIZE == 512
MIN_DEGREE == 4
MAGIC_HEADER == "BTREEIDX"

\* ------------------------------------------------------------ bounds
\* keys offered to insert in the unrestricted specifications: 1..MaxKey
MaxKey == 2
\* keys offered to insert in the unique-key specification: 1..MaxUKey
MaxUKey == 8
\* values offered to insert in the unrestricted specifications: 1..MaxVal
MaxVal == 2
\* values offered with key k in the unique-key specification:
\* 100 + k, ..., 100 * MaxUVal + k
MaxUVal == 1
\* an insert is offered only while the open file has fewer node blocks
MaxBlocks == 4
\* commands of one run of the unrestricted specification
MaxOps == 7
\* depth to which a walk of the tree follows child offsets
MaxDepth == 3
\* commands of one run of the whole-shell specification
MaxCmds == 5

FileNames == {"a", "b"}
None == "None"
Keys == 1..MaxKey
UKeys == 1..MaxUKey
Vals == 1..MaxVal
UVals(k) == {100 * j + k : j \in 1..MaxUVal}
\* operands offered to insert from outside 0..2^32-1 (below it: the range's
\* upper end is no integer of the model)
OutOfRange == {0 - 1}
\* names of data files, given to load and extract
DataNames == {"t"}
AllNames == FileNames \cup DataNames
\* the integers whose decimal numerals int() meets in the model
Numerals == (0 - 1)..(100 * MaxUVal + MaxUKey)
\* the data file that exists when the shell starts: two good lines, a blank
\* line, a line without a comma and a line whose value is no integer
InitLines == <<<<"1", "1">>, <<>>, <<"junk">>, <<"2", "x">>, <<"2", "1">>>>

\* ------------------------------------------------------------ messages
MsgCreated == "Index file created."
MsgCancelled == "Operation cancelled."
MsgOpened == "Index file opened."
MsgNotExist == "Error: File does not exist."
MsgInvalid == "Invalid index file format."
MsgNoIndex == "Error: No index file is open."
MsgInserted == "Inserted key."
MsgDuplicate == "Error: Duplicate key."
MsgInsertError == "An error occurred during insertion."
MsgSplitError == "Error splitting child node."
MsgTraceback == "Traceback (unhandled exception)"
MsgFound(value) == "Found key with value " \o ToString(value)
MsgNotFound == "Key not found."
MsgEmpty == "The B-tree is empty."
MsgSearchError == "An error occurred during search."
MsgInvalidLine == "Invalid line"
MsgInvalidKeyValue == "Invalid key/value"
MsgLoaded == "Data loaded."
MsgAllPairs == "All key-value pairs in the B-tree:"
MsgExtracted == "Data extracted."

VARIABLES
    files,       \* the file system: [FileNames -> <<>> or <<file>>]
    index_file,  \* IndexManager.index_file
    root,        \* IndexManager.root: <<>> or <<node>>
    pc,          \* "running", or "crashed" after an unhandled exception
    cmd,         \* the last command the shell dispatched
    out,         \* what that command printed
    passed,      \* history: per file, the pairs passed to insert for a new key
    nops         \* the number of commands dispatched so far

vars == <<files, index_file, root, pc, cmd, out, passed, nops>>

\* ------------------------------------------------------------ helpers
Min(a, b) == IF a < b THEN a ELSE b

\* Python's s[lo:hi] for 0 <= lo, 0 <= hi
Slice(s, lo, hi) == SubSeq(s, Min(lo, Len(s)) + 1, Min(hi, Len(s)))

\* Python's list.insert(i, x) at the Python index pos-1
InsertAt(s, pos, x) ==
    LET p == Min(pos, Len(s) + 1)
    IN SubSeq(s, 1, p - 1) \o <<x>> \o SubSeq(s, p, Len(s))

RECURSIVE StripZeros(_)
StripZeros(s) ==
    IF s = <<>> THEN s
    ELSE IF s[Len(s)] = 0 THEN StripZeros(SubSeq(s, 1, Len(s) - 1))
    ELSE s

\* ------------------------------------------------------------ the file
\* what create_index_file writes: magic, root offset 0, padding
FreshFile == [magic |-> MAGIC_HEADER, root_offset |-> 0, blocks |-> <<>>]

\* a block of 512 zero bytes, as allocate_offset appends
ZeroBlock == [is_leaf |-> FALSE, num_keys |-> 0, fields |-> <<>>]

FileLen(F) == BLOCK_SIZE * (1 + Len(F.blocks))

\* f.seek(offset); f.write(data) in mode r+b: a write past the end of the
\* file leaves a hole of zero bytes.  offset is never 0: a node's offset is
\* an appended block's or a non-zero header root.
WriteBlock(F, offset, blk) ==
    LET i == offset \div BLOCK_SIZE
    IN IF i <= Len(F.blocks)
       THEN [F EXCEPT !.blocks[i] = blk]
       ELSE [F EXCEPT !.blocks =
                @ \o [j \in 1..(i - Len(@) - 1) |-> ZeroBlock] \o <<blk>>]

\* update_root_offset gone wrong: the header keeps its old root offset
UpdateRootOffsetLost(F, offset) == F

\* update_root_offset with a file open
UpdateRootOffset(F, offset) == [F EXCEPT !.root_offset = offset]

\* ------------------------------------------------------------ data files
\* a text file of lines; magic stands for its first 8 bytes
DataFile(lines) == [magic |-> "(text)", lines |-> lines]

\* the line traverse writes for a pair, f"{key},{value}", as its parts
EntryParts(k, v) == <<ToString(k), ToString(v)>>

\* the same line as print shows it
Entry(k, v) == ToString(k) \o "," \o ToString(v)

\* int(s): <<>> is ValueError
ParseInt(s) ==
    LET c == {n \in Numerals : ToString(n) = s}
    IN IF c = {} THEN <<>> ELSE <<CHOOSE n \in c : TRUE>>

\* the stripped lines of a file opened in text mode
LinesOf(F) ==
    IF F.magic = MAGIC_HEADER THEN <<<<MAGIC_HEADER>>>> ELSE F.lines

\* ------------------------------------------------------------ node codec
\* struct.pack('>I', x) raises struct.error unless 0 <= x < 2^32
InU32(x) == x >= 0

\* BTreeNode.save packs every key and value with '>I'
CanPack(node) ==
    /\ \A i \in 1..Len(node.keys) : InU32(node.keys[i])
    /\ \A i \in 1..Len(node.values) : InU32(node.values[i])

Encode(node) ==
    [is_leaf |-> node.is_leaf,
     num_keys |-> Len(node.keys),
     fields |-> StripZeros(node.keys \o node.values \o node.children)]

\* BTreeNode.save: exc is a struct.error, raised before anything is written
Save(F, node) ==
    IF CanPack(node)
    THEN [exc |-> FALSE, file |-> WriteBlock(F, node.offset, Encode(node))]
    ELSE [exc |-> TRUE, file |-> F]

Field(b, i) == IF i <= Len(b.fields) THEN b.fields[i] ELSE 0

\* the bytes load's unpacks read lie inside the 512-byte block
DecodeFits(b) ==
    5 + 8 * b.num_keys + (IF b.is_leaf THEN 0 ELSE 8 * (b.num_keys + 1))
        <= BLOCK_SIZE

Decode(b, offset) ==
    [is_leaf |-> b.is_leaf,
     keys |-> [j \in 1..b.num_keys |-> Field(b, j)],
     values |-> [j \in 1..b.num_keys |-> Field(b, b.num_keys + j)],
     children |-> IF b.is_leaf THEN <<>>
                  ELSE [j \in 1..(b.num_keys + 1) |->
                          Field(b, 2 * b.num_keys + j)],
     offset |-> offset]

\* BTreeNode(index_manager, offset=offset), which loads the block at offset:
\* <<node>>, or <<>> when load raises struct.error (the header block read as
\* a node has num_keys 0x54524545, and past the end there is nothing to read)
Load(F, offset) ==
    LET i == offset \div BLOCK_SIZE
    IN IF i < 1 \/ i > Len(F.blocks) THEN <<>>
       ELSE IF ~DecodeFits(F.blocks[i]) THEN <<>>
       ELSE <<Decode(F.blocks[i], offset)>>

\* allocate_offset: append a zero block, return the old length
AllocateOffset(F) ==
    [file |-> [F EXCEPT !.blocks = Append(@, ZeroBlock)], pos |-> FileLen(F)]

\* BTreeNode(index_manager, is_leaf=is_leaf): a new node on a new block
NewNode(F, is_leaf) ==
    LET a == AllocateOffset(F)
    IN [file |-> a.file,
        node |-> [is_leaf |-> is_leaf, keys |-> <<>>, values |-> <<>>,
                  children |-> <<>>, offset |-> a.pos]]

\* ------------------------------------------------------------ B-tree engine
\* The scan "while i >= 0 and key < keys[i]: i -= 1" started at position i:
\* the position it stops at, 0 when it runs off the front.
RECURSIVE ScanLeft(_, _, _)
ScanLeft(keys, key, i) ==
    IF i >= 1 /\ key < keys[i] THEN ScanLeft(keys, key, i - 1) ELSE i

\* the shifting loop gone wrong: no entry is moved, so the new key lands on
\* the entry at p+1
ShiftedNoMove(s, p) == Append(s, 0)

\* A leaf's list after append(0) and the shifting loop that stopped at
\* position p: the entries right of p+1 moved one slot right, and slot p+1
\* still holds what it held.
Shifted(s, p) ==
    [j \in 1..(Len(s) + 1) |->
        IF j <= p THEN s[j]
        ELSE IF j = p + 1 THEN (IF j <= Len(s) THEN s[j] ELSE 0)
        ELSE s[j - 1]]

\* The record of one call made while insert runs: of split_child on the
\* parent node with the full child and the new sibling's offset, listing
\* the offsets of the node blocks it wrote in order; or of insert_non_full
\* on node.  node and child are as they were when the call was made.
SplitCall(self, child, sibling, writes) ==
    [fn |-> "split_child", node |-> self, child |-> <<child>>,
     sibling |-> sibling, writes |-> writes]

NonFullCall(self) ==
    [fn |-> "insert_non_full", node |-> self, child |-> <<>>,
     sibling |-> 0, writes |-> <<>>]

\* node.save() for each node of nodes in turn, up to the first struct.error:
\* writes lists the offsets written
RECURSIVE SaveSeq(_, _)
SaveWrote(offset, rest) == [rest EXCEPT !.writes = <<offset>> \o @]

SaveNext(s, nodes) ==
    IF s.exc THEN [exc |-> TRUE, file |-> s.file, writes |-> <<>>]
    ELSE SaveWrote(Head(nodes).offset, SaveSeq(s.file, Tail(nodes)))

SaveSeq(F, nodes) ==
    IF nodes = <<>> THEN [exc |-> FALSE, file |-> F, writes |-> <<>>]
    ELSE SaveNext(Save(F, Head(nodes)), nodes)

\* what split_child leaves once its three saves (lines 282-284) were tried
SplitSaved(s, self, parent, child, cut, sibling) ==
    [file |-> s.file, node |-> parent, child |-> cut,
     msgs |-> IF s.exc THEN <<MsgSplitError>> ELSE <<>>,
     calls |-> <<SplitCall(self, child, sibling, s.writes)>>]

\* split_child gone wrong another way: the promoted key and value are taken
\* before the child is cut, and the parent's own offset is linked where the
\* new child's belongs
SplitChildSelfLink(F, self, index, child) ==
    LET nn == NewNode(F, child.is_leaf)
        mid == MIN_DEGREE - 1
        new_child ==
            [nn.node EXCEPT
               !.keys = Slice(child.keys, mid + 1, Len(child.keys)),
               !.values = Slice(child.values, mid + 1, Len(child.values)),
               !.children = IF ~child.is_leaf
                            THEN Slice(child.children, mid + 1, Len(child.children))
                            ELSE @]
        cut ==
            [child EXCEPT
               !.keys = Slice(@, 0, mid),
               !.values = Slice(@, 0, mid),
               !.children = IF ~child.is_leaf THEN Slice(@, 0, mid + 1) ELSE @]
        parent ==
            [self EXCEPT
               !.keys = InsertAt(@, index, child.keys[mid + 1]),
               !.values = InsertAt(@, index, child.values[mid + 1]),
               !.children = InsertAt(@, index + 1, self.offset)]
    IN SplitSaved(SaveSeq(nn.file, <<cut, new_child, parent>>),
                  self, parent, child, cut, nn.node.offset)

\* split_child(index, child) on the parent self; index is the position the
\* promoted key goes to (Python index + 1).  The child is cut to its first
\* MIN_DEGREE-1 keys before child.keys[mid] is read, and the IndexError of
\* that read is caught and printed.  child is the child object afterwards.
SplitChild(F, self, index, child) ==
    LET nn == NewNode(F, child.is_leaf)
        mid == MIN_DEGREE - 1
        new_child ==
            [nn.node EXCEPT
               !.keys = Slice(child.keys, mid + 1, Len(child.keys)),
               !.values = Slice(child.values, mid + 1, Len(child.values)),
               !.children = IF ~child.is_leaf
                            THEN Slice(child.children, mid + 1, Len(child.children))
                            ELSE @]
        cut ==
            [child EXCEPT
               !.keys = Slice(@, 0, mid),
               !.values = Slice(@, 0, mid),
               !.children = IF ~child.is_leaf THEN Slice(@, 0, mid + 1) ELSE @]
    IN IF mid + 1 > Len(cut.keys)
       THEN [file |-> nn.file, node |-> self, child |-> cut,
             msgs |-> <<MsgSplitError>>,
             calls |-> <<SplitCall(self, child, nn.node.offset, <<>>)>>]
       ELSE LET parent ==
                    [self EXCEPT
                       !.keys = InsertAt(@, index, cut.keys[mid + 1]),
                       !.values = InsertAt(@, index, cut.values[mid + 1]),
                       !.children = InsertAt(@, index + 1, new_child.offset)]
            IN SplitSaved(SaveSeq(nn.file, <<cut, new_child, parent>>),
                          self, parent, child, cut, nn.node.offset)

\* insert_non_full(key, value) on the node self, depth calls below the
\* session's.  node is self afterwards, dup tells that DuplicateKeyError
\* left the call, msgs is what was printed and calls the calls made, this
\* one first; any other exception is caught and printed here.  A descent
\* deeper than MaxDepth (a cycle of child offsets) is cut off as such an
\* exception.
RECURSIVE InsertNonFull(_, _, _, _, _)
RECURSIVE Descend(_, _, _, _, _, _, _)

\* what the caller self is left with when the recursive call returned r
Descended(self, msgs, r) ==
    [file |-> r.file, node |-> self, dup |-> r.dup, msgs |-> msgs \o r.msgs,
     calls |-> r.calls]

\* lines 255-256: load children[i] and recurse into it
Descend(F, self, i, key, value, msgs, depth) ==
    LET child == IF i <= Len(self.children) /\ depth < MaxDepth
                 THEN Load(F, self.children[i])
                 ELSE <<>>
    IN IF child = <<>>
       THEN [file |-> F, node |-> self, dup |-> FALSE,
             msgs |-> msgs \o <<MsgInsertError>>, calls |-> <<>>]
       ELSE Descended(self, msgs,
                      InsertNonFull(F, child[1], key, value, depth + 1))

\* lines 252-256 once split_child returned sp: self.keys[i] is read, then
\* the child is loaded and entered
AfterSplit(sp, i, key, value, depth) ==
    IF i > Len(sp.node.keys)
    THEN [file |-> sp.file, node |-> sp.node, dup |-> FALSE,
          msgs |-> sp.msgs \o <<MsgInsertError>>, calls |-> <<>>]
    ELSE Descend(sp.file, sp.node,
                 IF key > sp.node.keys[i] THEN i + 1 ELSE i,
                 key, value, sp.msgs, depth)

\* the calls of a call and of what it called, in order
WithCalls(calls, res) == [res EXCEPT !.calls = calls \o @]

\* lines 233-245: the leaf, with the scan stopped at position p
InsertLeaf(F, self, key, value, p) ==
    LET shifted == [self EXCEPT !.keys = Shifted(@, p),
                                !.values = Shifted(@, p)]
    IN IF p >= 1 /\ key = self.keys[p]
       THEN [file |-> F, node |-> shifted, dup |-> TRUE, msgs |-> <<>>,
             calls |-> <<>>]
       ELSE LET placed == [shifted EXCEPT !.keys[p + 1] = key,
                                          !.values[p + 1] = value]
                s == Save(F, placed)
            IN [file |-> s.file, node |-> placed, dup |-> FALSE,
                msgs |-> IF s.exc THEN <<MsgInsertError>> ELSE <<>>,
                calls |-> <<>>]

\* lines 246-256: the internal node, with the child at position i
InsertInternal(F, self, key, value, i, depth) ==
    LET child == IF i <= Len(self.children)
                 THEN Load(F, self.children[i]) ELSE <<>>
    IN IF child = <<>>
       THEN [file |-> F, node |-> self, dup |-> FALSE,
             msgs |-> <<MsgInsertError>>, calls |-> <<>>]
       ELSE IF Len(child[1].keys) = 2 * MIN_DEGREE - 1
       THEN WithCalls(SplitChild(F, self, i, child[1]).calls,
                      AfterSplit(SplitChild(F, self, i, child[1]),
                                 i, key, value, depth))
       ELSE Descend(F, self, i, key, value, <<>>, depth)

InsertNonFull(F, self, key, value, depth) ==
    WithCalls(<<NonFullCall(self)>>,
              IF self.is_leaf
              THEN InsertLeaf(F, self, key, value,
                              ScanLeft(self.keys, key, Len(self.keys)))
              ELSE InsertInternal(F, self, key, value,
                                  ScanLeft(self.keys, key, Len(self.keys)) + 1,
                                  depth))

\* lines 87-93: the full root becomes the only child of a new root, which
\* split_child is called on; sp is what that call returned
RootSplit(sp) ==
    [file |-> UpdateRootOffset(sp.file, sp.node.offset),
     node |-> sp.node, msgs |-> sp.msgs, calls |-> sp.calls]

NewRoot(nn, old_root) == [nn.node EXCEPT !.children = <<old_root.offset>>]

\* lines 94-98 once the root was prepared as pre and insert_non_full
\* returned ins
InsertDone(pre, ins) ==
    [file |-> ins.file, root |-> <<ins.node>>,
     msgs |-> pre.msgs \o ins.msgs
              \o (IF ins.dup THEN <<MsgDuplicate>> ELSE <<MsgInserted>>),
     calls |-> pre.calls \o ins.calls]

InsertRooted(pre, key, value) ==
    InsertDone(pre, InsertNonFull(pre.file, pre.node, key, value, 0))

\* insert gone wrong: a full root is not split before insert_non_full is
\* called on it
InsertOpFullRoot(F, r, key, value) ==
    IF r = <<>>
    THEN LET nn == NewNode(F, TRUE)
             node == [nn.node EXCEPT !.keys = <<key>>, !.values = <<value>>]
         IN [file |-> UpdateRootOffset(Save(nn.file, node).file, node.offset),
             root |-> <<node>>, msgs |-> <<MsgInserted>>, calls |-> <<>>]
    ELSE InsertRooted([file |-> F, node |-> r[1], msgs |-> <<>>,
                       calls |-> <<>>], key, value)

\* IndexManager.insert with a file open (lines 78-101): F is the open file
\* and r the session's root.
InsertOp(F, r, key, value) ==
    IF r = <<>>
    THEN LET nn == NewNode(F, TRUE)
             node == [nn.node EXCEPT !.keys = <<key>>, !.values = <<value>>]
             s == Save(nn.file, node)
         IN IF s.exc
            THEN [file |-> s.file, root |-> <<node>>,
                  msgs |-> <<MsgInsertError>>, calls |-> <<>>]
            ELSE [file |-> UpdateRootOffset(s.file, node.offset),
                  root |-> <<node>>, msgs |-> <<MsgInserted>>, calls |-> <<>>]
    ELSE InsertRooted(
            IF Len(r[1].keys) = 2 * MIN_DEGREE - 1
            THEN RootSplit(SplitChild(NewNode(F, FALSE).file,
                                      NewRoot(NewNode(F, FALSE), r[1]),
                                      1, r[1]))
            ELSE [file |-> F, node |-> r[1], msgs |-> <<>>, calls |-> <<>>],
            key, value)

\* search_key(key) on node: [exc |-> an exception left the call,
\* val |-> <<>> for None or <<value>>].  A walk deeper than MaxDepth is cut
\* off as an exception.
RECURSIVE SearchKey(_, _, _, _)
SearchKey(F, node, key, depth) ==
    LET n == Len(node.keys)
        stop == CHOOSE i \in 1..(n + 1) :
                   /\ \A j \in 1..(i - 1) : key > node.keys[j]
                   /\ (i <= n => ~(key > node.keys[i]))
    IN IF stop <= n /\ key = node.keys[stop]
       THEN [exc |-> FALSE, val |-> <<node.values[stop]>>]
       ELSE IF node.is_leaf THEN [exc |-> FALSE, val |-> <<>>]
       ELSE LET child == IF stop <= Len(node.children) /\ depth < MaxDepth
                         THEN Load(F, node.children[stop]) ELSE <<>>
            IN IF child = <<>> THEN [exc |-> TRUE, val |-> <<>>]
               ELSE SearchKey(F, child[1], key, depth + 1)

\* traverse() on node: the (key, value) pairs in the order they are emitted;
\* exc tells that an exception ended the walk.
RECURSIVE Traverse(_, _, _)
RECURSIVE TraverseFrom(_, _, _, _)

\* the loop of lines 303-311 from position i on, then lines 312-314
TraverseFrom(F, node, i, depth) ==
    LET sub == IF node.is_leaf THEN [exc |-> FALSE, seq |-> <<>>]
               ELSE LET c == IF i <= Len(node.children) /\ depth < MaxDepth
                             THEN Load(F, node.children[i]) ELSE <<>>
                    IN IF c = <<>> THEN [exc |-> TRUE, seq |-> <<>>]
                       ELSE Traverse(F, c[1], depth + 1)
    IN IF i > Len(node.keys)
       THEN IF node.is_leaf THEN [exc |-> FALSE, seq |-> <<>>]
            ELSE LET c == IF Len(node.children) >= 1 /\ depth < MaxDepth
                          THEN Load(F, node.children[Len(node.children)])
                          ELSE <<>>
                 IN IF c = <<>> THEN [exc |-> TRUE, seq |-> <<>>]
                    ELSE Traverse(F, c[1], depth + 1)
       ELSE IF sub.exc THEN sub
       ELSE LET rest == TraverseFrom(F, node, i + 1, depth)
            IN [exc |-> rest.exc,
                seq |-> sub.seq \o <<<<node.keys[i], node.values[i]>>>> \o rest.seq]

Traverse(F, node, depth) == TraverseFrom(F, node, 1, depth)

\* ------------------------------------------------------------ the session
Command(op, f, k, v) == [op |-> op, f |-> f, k |-> k, v |-> v]

\* the state after construction: no file exists, IndexManager() holds none
Init ==
    /\ files = [f \in FileNames |-> <<>>]
    /\ index_file = None
    /\ root = <<>>
    /\ pc = "running"
    /\ cmd = Command("start", None, 0, 0)
    /\ out = <<>>
    /\ passed = [f \in FileNames |-> {}]
    /\ nops = 0

\* create <f>; choice is the answer to the overwrite prompt, asked only
\* when the file exists.  The session is not touched.
Create(f, choice) ==
    /\ pc = "running"
    /\ cmd' = Command("create", f, 0, 0)
    /\ IF files[f] # <<>> /\ choice # "y"
       THEN /\ out' = <<MsgCancelled>>
            /\ UNCHANGED <<files, passed>>
       ELSE /\ files' = [files EXCEPT ![f] = <<FreshFile>>]
            /\ passed' = [passed EXCEPT ![f] = {}]
            /\ out' = <<MsgCreated>>
    /\ UNCHANGED <<index_file, root, pc>>

\* open gone wrong: the session takes the file's name before the magic is
\* compared, and forgets its root
OpenAssignsFirst(f) ==
    /\ pc = "running"
    /\ cmd' = Command("open", f, 0, 0)
    /\ IF files[f] = <<>>
       THEN /\ out' = <<MsgNotExist>>
            /\ UNCHANGED <<index_file, root, pc>>
       ELSE /\ index_file' = f
            /\ root' = <<>>
            /\ out' = IF files[f][1].magic # MAGIC_HEADER
                      THEN <<MsgInvalid>> ELSE <<MsgOpened>>
            /\ UNCHANGED pc
    /\ UNCHANGED <<files, passed>>

\* open <f>.  The root node is built before index_file is assigned, so its
\* load reads the file the session had open before: with none open,
\* open(None, 'rb') raises TypeError; with the block missing from that file,
\* struct.unpack raises struct.error.  Neither is caught: the shell ends.
Open(f) ==
    /\ pc = "running"
    /\ cmd' = Command("open", f, 0, 0)
    /\ IF files[f] = <<>>
       THEN /\ out' = <<MsgNotExist>>
            /\ UNCHANGED <<index_file, root, pc>>
       ELSE IF files[f][1].magic # MAGIC_HEADER
       THEN /\ out' = <<MsgInvalid>>
            /\ UNCHANGED <<index_file, root, pc>>
       ELSE IF files[f][1].root_offset = 0
       THEN /\ root' = <<>>
            /\ index_file' = f
            /\ out' = <<MsgOpened>>
            /\ UNCHANGED pc
       ELSE LET node == IF index_file = None THEN <<>>
                        ELSE Load(files[index_file][1], files[f][1].root_offset)
            IN IF node = <<>>
               THEN /\ pc' = "crashed"
                    /\ out' = <<MsgTraceback>>
                    /\ UNCHANGED <<index_file, root>>
               ELSE /\ root' = node
                    /\ index_file' = f
                    /\ out' = <<MsgOpened>>
                    /\ UNCHANGED pc
    /\ UNCHANGED <<files, passed>>

\* the history of insert: the first pair passed for each key
Record(h, k, v) == IF \E pr \in h : pr[1] = k THEN h ELSE h \cup {<<k, v>>}

\* insert <k> <v>
Insert(k, v) ==
    /\ pc = "running"
    /\ cmd' = Command("insert", index_file, k, v)
    /\ IF index_file = None
       THEN /\ out' = <<MsgNoIndex>>
            /\ UNCHANGED <<files, root, passed>>
       ELSE /\ Len(files[index_file][1].blocks) < MaxBlocks
            /\ LET r == InsertOp(files[index_file][1], root, k, v)
               IN /\ files' = [files EXCEPT ![index_file] = <<r.file>>]
                  /\ root' = r.root
                  /\ out' = r.msgs
            /\ passed' = [passed EXCEPT ![index_file] = Record(@, k, v)]
    /\ UNCHANGED <<index_file, pc>>

\* IndexManager.search with a file open: what it prints
SearchMsgs(F, r, key) ==
    IF r = <<>> THEN <<MsgEmpty>>
    ELSE LET s == SearchKey(F, r[1], key, 0)
         IN IF s.exc THEN <<MsgSearchError>>
            ELSE IF s.val = <<>> THEN <<MsgNotFound>>
            ELSE <<MsgFound(s.val[1])>>

\* search <k>
SearchCmd(k) ==
    /\ pc = "running"
    /\ cmd' = Command("search", index_file, k, 0)
    /\ out' = IF index_file = None THEN <<MsgNoIndex>>
              ELSE SearchMsgs(files[index_file][1], root, k)
    /\ UNCHANGED <<files, index_file, root, pc, passed>>

\* one line of the loop of load_data (lines 128-143): F is the open file, r
\* the session's root and h the history of insert
Unloaded(F, r, h, msgs) == [file |-> F, root |-> r, passed |-> h, msgs |-> msgs]

LoadPair(ins, h) ==
    [file |-> ins.file, root |-> ins.root, passed |-> h, msgs |-> ins.msgs]

LoadLine(F, r, h, line) ==
    IF line = <<>> THEN Unloaded(F, r, h, <<>>)
    ELSE IF Len(line) # 2 THEN Unloaded(F, r, h, <<MsgInvalidLine>>)
    ELSE IF ParseInt(line[1]) = <<>> \/ ParseInt(line[2]) = <<>>
    THEN Unloaded(F, r, h, <<MsgInvalidKeyValue>>)
    ELSE LoadPair(InsertOp(F, r, ParseInt(line[1])[1], ParseInt(line[2])[1]),
                  Record(h, ParseInt(line[1])[1], ParseInt(line[2])[1]))

\* the loop over the lines of the data file (line 127)
RECURSIVE LoadLines(_, _, _, _)
LoadRest(step, lines) ==
    [LoadLines(step.file, step.root, step.passed, lines)
        EXCEPT !.msgs = step.msgs \o @]

LoadLines(F, r, h, lines) ==
    IF lines = <<>> THEN Unloaded(F, r, h, <<>>)
    ELSE LoadRest(LoadLine(F, r, h, Head(lines)), Tail(lines))

\* load <f>
LoadData(f) ==
    /\ pc = "running"
    /\ cmd' = Command("load", f, 0, 0)
    /\ IF index_file = None
       THEN /\ out' = <<MsgNoIndex>>
            /\ UNCHANGED <<files, root, passed>>
       ELSE IF files[f] = <<>>
       THEN /\ out' = <<MsgNotExist>>
            /\ UNCHANGED <<files, root, passed>>
       ELSE /\ Len(files[index_file][1].blocks) < MaxBlocks
            /\ LET r == LoadLines(files[index_file][1], root,
                                  passed[index_file], LinesOf(files[f][1]))
               IN /\ files' = [files EXCEPT ![index_file] = <<r.file>>]
                  /\ root' = r.root
                  /\ passed' = [passed EXCEPT ![index_file] = r.passed]
                  /\ out' = r.msgs \o <<MsgLoaded>>
    /\ UNCHANGED <<index_file, pc>>

\* the lines print shows for the pairs of seq
RECURSIVE Entries(_)
Entries(seq) ==
    IF seq = <<>> THEN <<>>
    ELSE <<Entry(Head(seq)[1], Head(seq)[2])>> \o Entries(Tail(seq))

\* print.  An exception of traverse is not caught: the shell ends.
PrintAll ==
    /\ pc = "running"
    /\ cmd' = Command("print", index_file, 0, 0)
    /\ IF index_file = None
       THEN out' = <<MsgNoIndex>> /\ UNCHANGED pc
       ELSE IF root = <<>>
       THEN out' = <<MsgEmpty>> /\ UNCHANGED pc
       ELSE LET t == Traverse(files[index_file][1], root[1], 0)
            IN /\ out' = <<MsgAllPairs>> \o Entries(t.seq)
                         \o (IF t.exc THEN <<MsgTraceback>> ELSE <<>>)
               /\ pc' = IF t.exc THEN "crashed" ELSE pc
    /\ UNCHANGED <<files, index_file, root, passed>>

\* extract gone wrong: the output file is opened before the test for an open
\* index, so the command empties it even when it then refuses
ExtractOpensFirst(f) ==
    /\ pc = "running"
    /\ cmd' = Command("extract", f, 0, 0)
    /\ files' = [files EXCEPT ![f] = <<DataFile(<<>>)>>]
    /\ out' = IF index_file = None THEN <<MsgNoIndex>>
              ELSE <<MsgEmpty, MsgExtracted>>
    /\ UNCHANGED <<index_file, root, passed, pc>>

\* extract <f>.  The output file is opened for writing, which creates or
\* empties it, after the test for an open index.  An exception of traverse
\* is no IOError: the file keeps the lines written so far, the shell ends.
Extract(f) ==
    /\ pc = "running"
    /\ cmd' = Command("extract", f, 0, 0)
    /\ IF index_file = None
       THEN /\ out' = <<MsgNoIndex>>
            /\ UNCHANGED <<files, pc>>
       ELSE IF root = <<>>
       THEN /\ files' = [files EXCEPT ![f] = <<DataFile(<<>>)>>]
            /\ out' = <<MsgEmpty, MsgExtracted>>
            /\ UNCHANGED pc
       ELSE LET t == Traverse(files[index_file][1], root[1], 0)
                lines == [i \in 1..Len(t.seq) |->
                            EntryParts(t.seq[i][1], t.seq[i][2])]
            IN /\ files' = [files EXCEPT ![f] = <<DataFile(lines)>>]
               /\ out' = IF t.exc THEN <<MsgTraceback>> ELSE <<MsgExtracted>>
               /\ pc' = IF t.exc THEN "crashed" ELSE pc
    /\ UNCHANGED <<index_file, root, passed>>

\* the shell ends (quit, exit, or an unhandled exception) and main() is run
\* again: a new IndexManager over the same files
Restart ==
    /\ index_file' = None
    /\ root' = <<>>
    /\ pc' = "running"
    /\ cmd' = Command("start", None, 0, 0)
    /\ out' = <<>>
    /\ UNCHANGED <<files, passed>>

\* ------------------------------------------------------------ specifications
\* any commands, on two files, at most MaxOps of them
Tick == nops < MaxOps /\ nops' = nops + 1

Next ==
    \/ \E f \in FileNames, choice \in {"y", "n"} : Tick /\ Create(f, choice)
    \/ \E f \in FileNames : Tick /\ Open(f)
    \/ \E k \in Keys, v \in Vals : Tick /\ Insert(k, v)
    \/ Tick /\ Restart

Spec == Init /\ [][Next]_vars

\* one session on one index: create a, open a, then inserts of any keys
NextIns ==
    \/ files["a"] = <<>> /\ Create("a", "y") /\ UNCHANGED nops
    \/ files["a"] # <<>> /\ index_file = None /\ Open("a") /\ UNCHANGED nops
    \/ /\ index_file = "a"
       /\ \E k \in Keys, v \in Vals : Insert(k, v)
       /\ UNCHANGED nops

SpecIns == Init /\ [][NextIns]_vars

\* the same session with every key inserted at most once
NextUnique ==
    \/ files["a"] = <<>> /\ Create("a", "y") /\ UNCHANGED nops
    \/ files["a"] # <<>> /\ index_file = None /\ Open("a") /\ UNCHANGED nops
    \/ /\ index_file = "a"
       /\ \E k \in UKeys : \E v \in UVals(k) :
             /\ k \notin {pr[1] : pr \in passed["a"]}
             /\ Insert(k, v)
       /\ UNCHANGED nops

SpecUnique == Init /\ [][NextUnique]_vars

\* one session on one index with operands inside and outside the range
\* of an unsigned 32-bit field
NextRange ==
    \/ files["a"] = <<>> /\ Create("a", "y") /\ UNCHANGED nops
    \/ files["a"] # <<>> /\ index_file = None /\ Open("a") /\ UNCHANGED nops
    \/ /\ index_file = "a"
       /\ \E k \in Keys \cup OutOfRange, v \in Vals \cup OutOfRange :
             Insert(k, v)
       /\ UNCHANGED nops

SpecRange == Init /\ [][NextRange]_vars

\* every command of the shell, at most MaxCmds of them, on two index files
\* and a data file that exists from the start
InitShell ==
    /\ files = [f \in AllNames |->
                  IF f \in DataNames THEN <<DataFile(InitLines)>> ELSE <<>>]
    /\ index_file = None
    /\ root = <<>>
    /\ pc = "running"
    /\ cmd = Command("start", None, 0, 0)
    /\ out = <<>>
    /\ passed = [f \in FileNames |-> {}]
    /\ nops = 0

TickShell == nops < MaxCmds /\ nops' = nops + 1

NextShell ==
    \/ \E f \in FileNames, choice \in {"y", "n"} : TickShell /\ Create(f, choice)
    \/ \E f \in AllNames : TickShell /\ Open(f)
    \/ \E k \in Keys, v \in Vals : TickShell /\ Insert(k, v)
    \/ \E k \in Keys : TickShell /\ SearchCmd(k)
    \/ \E f \in AllNames : TickShell /\ LoadData(f)
    \/ TickShell /\ PrintAll
    \/ \E f \in DataNames : TickShell /\ Extract(f)
    \/ TickShell /\ Restart

SpecShell == InitShell /\ [][NextShell]_vars

\* ------------------------------------------------------------ observations
\* the open file
OpenFile == files[index_file][1]

\* IndexManager.search(key) with the file F open and the root r: what
\* search_key returns from r, None when r is None
Search(F, r, key) ==
    IF r = <<>> THEN [exc |-> FALSE, val |-> <<>>]
    ELSE SearchKey(F, r[1], key, 0)

SearchOut(key) == Search(OpenFile, root, key)

\* IndexManager.print_all / extract_to_file with a file open: the pairs
\* traverse emits from the session's root
TraverseOut ==
    IF root = <<>> THEN [exc |-> FALSE, seq |-> <<>>]
    ELSE Traverse(OpenFile, root[1], 0)

\* An external walk of the tree under node: every node reached by following
\* child offsets that decode, with the child positions that lead to it.
RECURSIVE Walk(_, _, _)
Walk(F, node, path) ==
    {[path |-> path, node |-> node]}
    \cup (IF node.is_leaf \/ Len(path) >= MaxDepth THEN {}
          ELSE UNION {LET c == Load(F, node.children[i])
                      IN IF c = <<>> THEN {} ELSE Walk(F, c[1], Append(path, i))
                      : i \in 1..Len(node.children)})

\* the walk from the root the session holds
SessionWalk == IF root = <<>> THEN {} ELSE Walk(OpenFile, root[1], <<>>)

\* the walk from the root block the header of the open file names
FileWalk ==
    LET r == Load(OpenFile, OpenFile.root_offset)
    IN IF OpenFile.root_offset = 0 \/ r = <<>> THEN {}
       ELSE Walk(OpenFile, r[1], <<>>)

\* the depths at which a walk meets leaves
LeafDepths(walk) == {Len(e.path) : e \in {x \in walk : x.node.is_leaf}}

Range(s) == {s[i] : i \in 1..Len(s)}
Ascending(s) == \A i \in 1..(Len(s) - 1) : s[i] < s[i + 1]
\* the keys and the block offsets of the nodes a walk meets
WalkKeys(walk) == UNION {Range(e.node.keys) : e \in walk}
WalkOffsets(walk) == {e.node.offset : e \in walk}
KeysPassed(f) == {pr[1] : pr \in passed[f]}
Idle == pc = "running" /\ index_file # None

\* an offset of an allocated node block of F
NodeOffset(F, offset) ==
    /\ offset % BLOCK_SIZE = 0
    /\ offset >= BLOCK_SIZE
    /\ offset < FileLen(F)

\* the calls of split_child and insert_non_full that insert <k> <v> makes
\* from the state it is given in, in order
InsertCalls(k, v) == InsertOp(OpenFile, root, k, v).calls

\* ------------------------------------------------------------ claims

\* C1 Lookup consistency: on an open index, search(k) returns v for every
\* pair (k, v) passed to insert while k was not yet present, and none for
\* every k never passed to insert, however many keys were inserted.
C1_LookupConsistency ==
    Idle =>
      \A k \in UKeys :
         /\ \A pr \in passed[index_file] :
               pr[1] = k => SearchOut(k) = [exc |-> FALSE, val |-> <<pr[2]>>]
         /\ k \notin KeysPassed(index_file) =>
               SearchOut(k) = [exc |-> FALSE, val |-> <<>>]

\* C2 Duplicate rejection: insert(k, v) with k already in the tree prints
\* DuplicateKey and leaves the files (length, node blocks, header), the
\* traverse output and the result of search(k) as they were.
C2_DuplicateRejection ==
    [][(/\ Idle
        /\ cmd'.op = "insert"
        /\ SearchOut(cmd'.k).val # <<>>)
       => (/\ out' = <<MsgDuplicate>>
           /\ files' = files
           /\ TraverseOut' = TraverseOut
           /\ Search(OpenFile', root', cmd'.k) = SearchOut(cmd'.k))]_vars

\* C3 Ordered traversal: after any inserts, accepted or rejected, traverse
\* emits pairs strictly ascending in keys, each key one that was inserted.
C3_OrderedTraversal ==
    Idle =>
      /\ ~TraverseOut.exc
      /\ Ascending([i \in 1..Len(TraverseOut.seq) |-> TraverseOut.seq[i][1]])
      /\ \A i \in 1..Len(TraverseOut.seq) :
            TraverseOut.seq[i][1] \in KeysPassed(index_file)

\* C4 Degree bounds: between operations every non-root node reachable from
\* the root holds t-1..2t-1 keys and the root 1..2t-1, for the root the
\* session holds and for the root block stored in the file.
C4_DegreeBounds ==
    Idle =>
      \A e \in SessionWalk \cup FileWalk :
         /\ Len(e.node.keys) <= 2 * MIN_DEGREE - 1
         /\ Len(e.node.keys) >= (IF e.path = <<>> THEN 1 ELSE MIN_DEGREE - 1)

\* C5 Root split result: insert of a new key k into a tree whose root is a
\* full leaf leaves an internal root holding exactly the old median key and
\* value, with a left leaf of the t-1 smaller keys and a right leaf of the
\* t-1 larger keys, k added on its side: a tree of height 2.
C5_RootSplitResult ==
    [][(/\ Idle
        /\ cmd'.op = "insert"
        /\ root # <<>>
        /\ root[1].is_leaf
        /\ Len(root[1].keys) = 2 * MIN_DEGREE - 1
        /\ cmd'.k \notin Range(root[1].keys))
       => LET old == root[1]
              new == root'[1]
              k == cmd'.k
              left == Load(OpenFile', new.children[1])
              right == Load(OpenFile', new.children[2])
          IN /\ ~new.is_leaf
             /\ new.keys = <<old.keys[MIN_DEGREE]>>
             /\ new.values = <<old.values[MIN_DEGREE]>>
             /\ Len(new.children) = 2
             /\ left # <<>> /\ left[1].is_leaf /\ Ascending(left[1].keys)
             /\ right # <<>> /\ right[1].is_leaf /\ Ascending(right[1].keys)
             /\ Range(left[1].keys) =
                   Range(SubSeq(old.keys, 1, MIN_DEGREE - 1))
                   \cup (IF k < old.keys[MIN_DEGREE] THEN {k} ELSE {})
             /\ Range(right[1].keys) =
                   Range(SubSeq(old.keys, MIN_DEGREE + 1, 2 * MIN_DEGREE - 1))
                   \cup (IF k > old.keys[MIN_DEGREE] THEN {k} ELSE {})]_vars

\* C6 Pointer validity: between operations the header root_offset is 0 or
\* the offset of an allocated node block, and every child offset stored in
\* an internal node reachable from the stored root is the offset of an
\* allocated node block, never block 0, no offset being reached twice.
C6_PointerValidity ==
    Idle =>
      /\ OpenFile.root_offset = 0 \/ NodeOffset(OpenFile, OpenFile.root_offset)
      /\ \A e \in FileWalk :
            \A i \in 1..Len(e.node.children) :
               NodeOffset(OpenFile, e.node.children[i])
      /\ \A e1, e2 \in FileWalk :
            e1.node.offset = e2.node.offset => e1.path = e2.path

\* C7 Height uniformity: after inserts of unique keys all leaves reachable
\* from the root, the session's and the stored one, lie at the same depth.
C7_HeightUniformity ==
    Idle =>
      /\ Cardinality(LeafDepths(SessionWalk)) <= 1
      /\ Cardinality(LeafDepths(FileWalk)) <= 1

\* a session whose root is an internal node over a leaf, after eight
\* unique keys were passed to insert
C7_Witness ==
    /\ Idle
    /\ Cardinality(passed[index_file]) = 2 * MIN_DEGREE
    /\ root # <<>> /\ ~root[1].is_leaf
    /\ LeafDepths(SessionWalk) = {1}

\* C8 Header/root agreement: with a file open and no operation in progress
\* the header root_offset is the offset of the session's root node, and 0
\* exactly when the session holds no root.
C8_HeaderRootAgreement ==
    Idle =>
      /\ (OpenFile.root_offset = 0) <=> (root = <<>>)
      /\ root # <<>> => OpenFile.root_offset = root[1].offset

C10_NoSplitFill ==
    (Idle /\ Cardinality(passed[index_file]) \in 1..(2 * MIN_DEGREE - 1)) =>
      LET stored == Load(OpenFile, BLOCK_SIZE)
      IN /\ FileLen(OpenFile) = 2 * BLOCK_SIZE
         /\ OpenFile.root_offset = BLOCK_SIZE
         /\ stored # <<>>
         /\ root = stored
         /\ stored[1].is_leaf
         /\ Ascending(stored[1].keys)
         /\ Len(stored[1].values) = Len(stored[1].keys)
         /\ {<<stored[1].keys[i], stored[1].values[i]>> :
                i \in 1..Len(stored[1].keys)} = passed[index_file]

\* a full single-leaf tree: 2t-1 distinct keys, inserted in some order
C10_Witness ==
    /\ Idle
    /\ Cardinality(passed[index_file]) = 2 * MIN_DEGREE - 1
    /\ root # <<>> /\ root[1].is_leaf
    /\ Len(root[1].keys) = 2 * MIN_DEGREE - 1
    /\ FileLen(OpenFile) = 2 * BLOCK_SIZE

\* C11 NoIndexOpen: insert, search, load, print and extract given while the
\* session has no open index print the NoIndexOpen error and change
\* nothing: no file is created, written or extended, and the session's
\* file name and root stay unset.
C11_NoIndexOpen ==
    [][(/\ pc = "running"
        /\ index_file = None
        /\ cmd'.op \in {"insert", "search", "load", "print", "extract"})
       => (/\ out' = <<MsgNoIndex>>
           /\ files' = files
           /\ index_file' = None
           /\ root = <<>> /\ root' = <<>>
           /\ pc' = "running")]_vars

\* extract refused in a new session, with an index file holding a node and
\* the data file on disk
C11_Witness ==
    /\ index_file = None /\ root = <<>>
    /\ cmd.op = "extract" /\ out = <<MsgNoIndex>>
    /\ \E f \in FileNames : files[f] # <<>> /\ files[f][1].blocks # <<>>
    /\ \A f \in DataNames : files[f] = <<DataFile(InitLines)>>

\* C12 InvalidIndexFile: open of an existing file whose first 8 bytes are
\* not the magic BTREEIDX prints InvalidIndexFile and leaves the session's
\* file name and root, and every file, exactly as they were: an index
\* opened before stays open.
C12_InvalidIndexFile ==
    [][(/\ pc = "running"
        /\ cmd'.op = "open"
        /\ files[cmd'.f] # <<>>
        /\ files[cmd'.f][1].magic # MAGIC_HEADER)
       => (/\ out' = <<MsgInvalid>>
           /\ index_file' = index_file
           /\ root' = root
           /\ files' = files
           /\ pc' = "running")]_vars

\* the data file refused while an index with a root is open
C12_Witness ==
    /\ cmd.op = "open" /\ cmd.f \in DataNames
    /\ out = <<MsgInvalid>>
    /\ pc = "running"
    /\ index_file \in FileNames
    /\ root # <<>>
    /\ SearchOut(root[1].keys[1]).val # <<>>

\* C13 Reopen round-trip: open of an index file F, from any session state
\* (no file open, F open, another index open), ends without an unhandled
\* exception and leaves a session on F whose root is decoded from F's own
\* block at F's header root_offset; with F itself open before, traverse
\* and search give what they gave before the reopen.
C13_ReopenRoundTrip ==
    [][(/\ pc = "running"
        /\ cmd'.op = "open"
        /\ files[cmd'.f] # <<>>
        /\ files[cmd'.f][1].magic = MAGIC_HEADER)
       => LET F == files[cmd'.f][1]
          IN /\ pc' = "running"
             /\ index_file' = cmd'.f
             /\ root' = IF F.root_offset = 0 THEN <<>>
                        ELSE Load(F, F.root_offset)
             /\ index_file = cmd'.f =>
                   /\ TraverseOut' = TraverseOut
                   /\ \A k \in Keys :
                         Search(OpenFile', root', k) = SearchOut(k)]_vars

\* C14 Split write order: every split_child(P, i, C) called on a full child
\* writes exactly three node blocks before it returns, in the order C (cut),
\* the new sibling C', the parent P.
C14_SplitWriteOrder ==
    [][(Idle /\ cmd'.op = "insert")
       => LET calls == InsertCalls(cmd'.k, cmd'.v)
          IN \A i \in 1..Len(calls) :
                calls[i].fn = "split_child" =>
                   /\ Len(calls[i].child[1].keys) = 2 * MIN_DEGREE - 1
                   /\ calls[i].writes = <<calls[i].child[1].offset,
                                          calls[i].sibling,
                                          calls[i].node.offset>>]_vars

\* C15 Duplicate against a promoted key: when insert_non_full on an
\* internal node finds the target child full and calls split_child on it,
\* and the key k being inserted is the one the split promotes (the child's
\* median key), the insert ends with DuplicateKey, not with success, and
\* no leaf holds k afterwards.
C15_PromotedDuplicate ==
    [][(/\ Idle
        /\ cmd'.op = "insert"
        /\ LET calls == InsertCalls(cmd'.k, cmd'.v)
           IN \E i \in 2..Len(calls) :
                 /\ calls[i].fn = "split_child"
                 /\ calls[i - 1].fn = "insert_non_full"
                 /\ calls[i].child[1].keys[MIN_DEGREE] = cmd'.k)
       => (/\ MsgDuplicate \in Range(out')
           /\ MsgInserted \notin Range(out')
           /\ \A e \in SessionWalk' \cup FileWalk' :
                 e.node.is_leaf => cmd'.k \notin Range(e.node.keys))]_vars

\* C16 Preemptive split: in every insert, at each call of split_child the
\* parent holds fewer than 2t-1 = 7 keys, and every node insert_non_full is
\* called on holds fewer than 2t-1 keys.
C16_PreemptiveSplit ==
    [][(Idle /\ cmd'.op = "insert")
       => LET calls == InsertCalls(cmd'.k, cmd'.v)
          IN \A i \in 1..Len(calls) :
                Len(calls[i].node.keys) < 2 * MIN_DEGREE - 1]_vars

\* an insert has met a full root: split_child was called on a new root and
\* insert_non_full on that root, which the session now holds
C16_Witness ==
    /\ Idle
    /\ cmd.op = "insert"
    /\ MsgSplitError \in Range(out)
    /\ root # <<>> /\ ~root[1].is_leaf
    /\ Len(root[1].keys) < 2 * MIN_DEGREE - 1
    /\ Len(root[1].children) = 1
    /\ LET c == Load(OpenFile, root[1].children[1])
       IN c # <<>> /\ Len(c[1].keys) = 2 * MIN_DEGREE - 1

\* C17 Truthful insert outcome: insert(k, v) prints the success message
\* only if the pair was added, that is a search(k) right afterwards returns
\* v; and when split_child or insert_non_full failed inside, it prints an
\* error and not the success message.
C17_TruthfulOutcome ==
    [][(Idle /\ cmd'.op = "insert")
       => (/\ MsgInserted \in Range(out') =>
                 Search(OpenFile', root', cmd'.k) =
                    [exc |-> FALSE, val |-> <<cmd'.v>>]
           /\ (MsgSplitError \in Range(out') \/ MsgInsertError \in Range(out'))
                 => MsgInserted \notin Range(out'))]_vars

\* C18 No abandoned blocks: after any create, open or insert every block of
\* the open index file but block 0 is a node reached from the header's
\* root_offset by child offsets; and an insert makes the file longer only
\* if it makes the set of stored keys larger.
C18_NoAbandonedBlocks ==
    [][(/\ Idle' =>
             \A i \in 1..Len(OpenFile'.blocks) :
                BLOCK_SIZE * i \in WalkOffsets(FileWalk')
        /\ (Idle /\ cmd'.op = "insert") =>
             (FileLen(OpenFile') # FileLen(OpenFile) =>
                /\ FileLen(OpenFile') > FileLen(OpenFile)
                /\ WalkKeys(FileWalk) \subseteq WalkKeys(FileWalk')
                /\ WalkKeys(FileWalk') # WalkKeys(FileWalk)))]_vars

\* C19 Out-of-range operands: insert(k, v) with k or v outside the unsigned
\* 32-bit range adds nothing: the files (bytes, length, header root_offset)
\* and the session's root are as before and search(k) returns none; and an
\* insert of a new in-range pair into a leaf root with room still succeeds
\* and is found.
C19_OutOfRangeOperands ==
    [][(Idle /\ cmd'.op = "insert")
       => (/\ (~InU32(cmd'.k) \/ ~InU32(cmd'.v)) =>
                 /\ files' = files
                 /\ root' = root
                 /\ Search(OpenFile', root', cmd'.k) =
                       [exc |-> FALSE, val |-> <<>>]
           /\ (/\ InU32(cmd'.k) /\ InU32(cmd'.v)
               /\ root # <<>> => /\ root[1].is_leaf
                                 /\ Len(root[1].keys) < 2 * MIN_DEGREE - 1
                                 /\ cmd'.k \notin Range(root[1].keys))
                 => /\ out' = <<MsgInserted>>
                    /\ cmd'.k \in WalkKeys(FileWalk')
                    /\ Search(OpenFile', root', cmd'.k) =
                          [exc |-> FALSE, val |-> <<cmd'.v>>])]_vars

====
